---- MODULE Spec2Model ----
\* Model of gtnh.assembler.generic_assembler.GenericAssembler: the assembly of
\* one side's release archive (mods + config) and the read-only queries
\* get_mods / get_amount_of_files_in_config.
EXTENDS Integers, Sequences, FiniteSets, TLC

\* ---------------------------------------------------------------- bounds

\* number of assemble() calls made on one assembler in a behaviour
MaxRuns == 2

\* ----------------------------------------------------------- vocabulary

Side == {"CLIENT", "SERVER", "BOTH"}

ModSource == {"github", "external"}

\* Optional[...] : the absent value
None == [ok |-> FALSE]

\* set of the elements of a sequence
Range(s) == {s[i] : i \in 1..Len(s)}

\* python `item in list`
InList(x, l) == \E i \in 1..Len(l) : l[i] = x

\* ------------------------------------------------- the assembler's inputs

\* release.github_mods / release.external_mods: dicts, in iteration order
GithubChoices ==
    { << [name |-> "A", version |-> "1"] >>,
      << [name |-> "B", version |-> "2"], [name |-> "A", version |-> "1"] >> }

ExternalChoices ==
    { << >>,
      << [name |-> "C", version |-> "1"], [name |-> "B", version |-> "1"] >> }

\* release.config: "v1" is a version the config has, "v2" is not
ConfigChoices == {"v1", "v2"}

\* modpack_manager.assets: the known mods, keyed by (source, name)
StoreChoices ==
    { [github   |-> [A |-> [side |-> "BOTH",   versions |-> {"1"}],
                     B |-> [side |-> "CLIENT", versions |-> {"1", "2"}]],
       external |-> [B |-> [side |-> "SERVER", versions |-> {"1"}],
                     C |-> [side |-> "BOTH",   versions |-> {"1"}]]],
      [github   |-> [A |-> [side |-> "SERVER", versions |-> {"1"}],
                     B |-> [side |-> "BOTH",   versions |-> {"1"}]],
       external |-> [B |-> [side |-> "CLIENT", versions |-> {"1"}],
                     C |-> [side |-> "SERVER", versions |-> {"1"}]]] }

\* mod_pack.client_exclusions / mod_pack.server_exclusions
ExclusionChoices ==
    { [client_exclusions |-> << >>,
       server_exclusions |-> <<"cfg/a">>],
      [client_exclusions |-> <<"cfg/b", "cfg/x">>,
       server_exclusions |-> <<"cfg/a", "cfg/b">>] }

\* the cached config archive of version "v1": its entries in namelist order
ConfigZipChoices ==
    { << [name |-> "cfg/a", data |-> "da"], [name |-> "cfg/b", data |-> "db"] >>,
      << [name |-> "cfg/c", data |-> "dc"], [name |-> "cfg/a", data |-> "da2"] >> }

VARIABLES
    release,        \* self.release
    store,          \* self.modpack_manager.assets (mods)
    mod_pack,       \* self.modpack_manager.mod_pack (the exclusion lists)
    config_zip,     \* the cached config archive file
    fs,             \* the output files, by archive path
    handle,         \* the ZipFile handle of assemble: "none", "open", "closed"
    pc,             \* position inside assemble(); "idle" between calls
    side,           \* argument of the current / last assemble() call
    mods,           \* value of self.get_mods(side) inside assemble
    cfg,            \* value of self.get_config() inside assemble
    exc,            \* exception in flight inside assemble: "none" or its kind
    trace,          \* the steps taken by the current / last assemble() call
    hist,           \* one record per finished assemble() call
    calls,          \* the get_mod_and_version calls made by that get_mods
    query           \* the last direct call of get_mods(side) or
                    \* get_amount_of_files_in_config(side), and what it returned

vars == << release, store, mod_pack, config_zip, fs, handle, pc, side, mods,
           cfg, exc, trace, hist, calls, query >>

inputs == << release, store, mod_pack, config_zip >>

\* ------------------------------------------------------- collaborators

\* assets.get_mod_and_version(name, version, valid_sides, source)
get_mod_and_version(st, name, version, sides, source) ==
    IF /\ name \in DOMAIN st[source]
       /\ st[source][name].side \in sides
       /\ version \in st[source][name].versions
    THEN [ok |-> TRUE, source |-> source, name |-> name,
          side |-> st[source][name].side, version |-> version]
    ELSE None

\* config.get_version(version_string)
get_version(v) == IF v = "v1" THEN [ok |-> TRUE, version |-> v] ELSE None

\* get_asset_version_cache_location(config, version), opened and listed
config_entries(zip, version) == zip

\* get_archive_path(side): one path per side
get_archive_path(s) == s

Paths == {get_archive_path(s) : s \in Side}

NoFile == [exists |-> FALSE, finalized |-> FALSE, entries |-> << >>]

\* ----------------------------------------------------- pure operations

\* __init__: self.exclusions[side]
exclusions_swapped(mp, s) == IF s = "CLIENT" THEN mp.server_exclusions ELSE mp.client_exclusions
exclusions(mp, s) == IF s = "CLIENT" THEN mp.client_exclusions ELSE mp.server_exclusions

\* get_mods: valid_sides = {side, Side.BOTH}
valid_sides_any(s) == Side
valid_sides(s) == {s, "BOTH"}

\* the get_mod_and_version calls of get_mods, in call order
lookups(rel, st, s) ==
    [i \in 1..Len(rel.github_mods) |->
        [name |-> rel.github_mods[i].name, version |-> rel.github_mods[i].version,
         sides |-> valid_sides(s), source |-> "github",
         ret |-> get_mod_and_version(st, rel.github_mods[i].name,
                     rel.github_mods[i].version, valid_sides(s), "github")]]
    \o
    [i \in 1..Len(rel.external_mods) |->
        [name |-> rel.external_mods[i].name, version |-> rel.external_mods[i].version,
         sides |-> valid_sides(s), source |-> "github",
         ret |-> get_mod_and_version(st, rel.external_mods[i].name,
                     rel.external_mods[i].version, valid_sides(s), "github")]]

IsSome(x) == x.ok

\* list(filter(None, github_mods + external_mods))
get_mods_external_first(rel, st, s) ==
    LET all == lookups(rel, st, s)
        g == SubSeq(all, 1, Len(rel.github_mods))
        e == SubSeq(all, Len(rel.github_mods) + 1, Len(all))
        rets == [i \in 1..Len(all) |-> (e \o g)[i].ret]
    IN SelectSeq(rets, IsSome)
get_mods(rel, st, s) ==
    LET all == lookups(rel, st, s)
        rets == [i \in 1..Len(all) |-> all[i].ret]
    IN SelectSeq(rets, IsSome)

\* get_config: (config, version), or the failed assert
get_config(rel) == get_version(rel.config)

\* get_amount_of_files_in_config
\* (the absent value stands for the failed assert of get_config)
get_amount_all(rel, mp, zip, s) ==
    IF ~get_config(rel).ok
    THEN None
    ELSE [ok |-> TRUE,
          value |-> Len(config_entries(zip, get_config(rel).version))]
get_amount_of_files_in_config(rel, mp, zip, s) ==
    IF ~get_config(rel).ok
    THEN None
    ELSE LET names == config_entries(zip, get_config(rel).version)
             Kept(e) == ~InList(e.name, exclusions(mp, s))
         IN [ok |-> TRUE, value |-> Len(SelectSeq(names, Kept))]

\* add_mods: one archive entry per resolved mod
mod_entries(ms, r) ==
    [i \in 1..Len(ms) |->
        [kind |-> "mod", name |-> ms[i].name, data |-> ms[i].version, run |-> r]]

\* add_config: the entries of the config archive not excluded for the side
cfg_entries(mp, zip, version, s, r) ==
    LET Kept(e) == ~InList(e.name, exclusions(mp, s))
        kept == SelectSeq(config_entries(zip, version), Kept)
    IN [i \in 1..Len(kept) |->
        [kind |-> "config", name |-> kept[i].name, data |-> kept[i].data, run |-> r]]

\* ------------------------------------------------- file and archive model

\* os.path.exists(archive_name)
os_path_exists(f, path) == f[path].exists

\* os.remove(archive_name)
os_remove_nothing(f, path) == f
os_remove(f, path) == [f EXCEPT ![path] = NoFile]

\* ZipFile(path, "w"): the file is created or truncated
ZipFile_w(f, path) ==
    [f EXCEPT ![path] = [exists |-> TRUE, finalized |-> FALSE, entries |-> << >>]]

\* ZipFile.writestr / write: entries appended to the open archive
zip_write(f, path, es) == [f EXCEPT ![path].entries = @ \o es]

\* ZipFile.__exit__: close() on every way out of the with block
ZipFile_exit_on_success_only(h, e) == IF e = "none" THEN "closed" ELSE h
ZipFile_exit(h, e) == "closed"

\* assemble: the side check
ValidSide_any(s) == s \in Side
ValidSide(s) == s \in {"CLIENT", "SERVER"}

\* assemble: the statement that follows each statement on its normal path
next_step_resolve_first(p) ==
    CASE p = "path"       -> "remove"
      [] p = "remove"     -> "get_mods"
      [] p = "get_mods"   -> "get_config"
      [] p = "get_config" -> "open"
      [] p = "open"       -> "add_mods"
      [] p = "add_mods"   -> "add_config"
      [] p = "add_config" -> "exit"
next_step(p) ==
    CASE p = "path"       -> "remove"
      [] p = "remove"     -> "open"
      [] p = "open"       -> "get_mods"
      [] p = "get_mods"   -> "add_mods"
      [] p = "add_mods"   -> "get_config"
      [] p = "get_config" -> "add_config"
      [] p = "add_config" -> "exit"

\* number of the assemble() call in progress
run == Len(hist) + 1

Finished(s, outcome) == Append(hist, [side |-> s, outcome |-> outcome])

\* ------------------------------------------------------------------ Init

Init ==
    /\ \E g \in GithubChoices, e \in ExternalChoices, c \in ConfigChoices :
           release = [github_mods |-> g, external_mods |-> e, config |-> c]
    /\ store \in StoreChoices
    /\ mod_pack \in ExclusionChoices
    /\ config_zip \in ConfigZipChoices
    /\ fs = [p \in Paths |-> NoFile]
    /\ handle = "none"
    /\ pc = "idle"
    /\ side = "CLIENT"
    /\ mods = << >>
    /\ cfg = None
    /\ exc = "none"
    /\ trace = << >>
    /\ hist = << >>
    /\ calls = << >>
    /\ query = [op |-> "none", side |-> "CLIENT", value |-> None]

\* --------------------------------------------------------------- assemble

\* assemble(side): the call and the side check (lines 166-167)
Assemble(s) ==
    /\ pc = "idle"
    /\ Len(hist) < MaxRuns
    /\ side' = s
    /\ mods' = << >>
    /\ cfg' = None
    /\ exc' = "none"
    /\ IF ValidSide(s)
       THEN /\ pc' = "path"
            /\ trace' = << >>
            /\ hist' = hist
       ELSE /\ pc' = "idle"
            /\ trace' = << "raise" >>
            /\ hist' = Finished(s, "raised")
    /\ UNCHANGED << inputs, fs, handle, calls, query >>

\* archive_name = self.get_archive_path(side)
ArchivePath ==
    /\ pc = "path"
    /\ trace' = Append(trace, "get_archive_path")
    /\ pc' = next_step("path")
    /\ UNCHANGED << inputs, fs, handle, side, mods, cfg, exc, hist, calls,
                    query >>

\* if os.path.exists(archive_name): os.remove(archive_name)
RemoveExisting ==
    /\ pc = "remove"
    /\ IF os_path_exists(fs, get_archive_path(side))
       THEN /\ fs' = os_remove(fs, get_archive_path(side))
            /\ trace' = Append(trace, "remove")
       ELSE UNCHANGED << fs, trace >>
    /\ pc' = next_step("remove")
    /\ UNCHANGED << inputs, handle, side, mods, cfg, exc, hist, calls,
                    query >>

\* with ZipFile(self.get_archive_path(side), "w") as archive:
OpenArchive ==
    /\ pc = "open"
    /\ fs' = ZipFile_w(fs, get_archive_path(side))
    /\ handle' = "open"
    /\ trace' = Append(trace, "open")
    /\ pc' = next_step("open")
    /\ UNCHANGED << inputs, side, mods, cfg, exc, hist, calls, query >>

\* self.get_mods(side), the argument of add_mods
ResolveMods ==
    /\ pc = "get_mods"
    /\ mods' = get_mods(release, store, side)
    /\ calls' = lookups(release, store, side)
    /\ trace' = Append(trace, "get_mods")
    /\ pc' = next_step("get_mods")
    /\ UNCHANGED << inputs, fs, handle, side, cfg, exc, hist, query >>

\* self.add_mods(side, mods, archive): all entries written, or an I/O
\* error after the first k of them
AddMods ==
    /\ pc = "add_mods"
    /\ \/ /\ fs' = zip_write(fs, get_archive_path(side), mod_entries(mods, run))
          /\ trace' = Append(trace, "add_mods")
          /\ pc' = next_step("add_mods")
          /\ exc' = exc
       \/ \E k \in 0..(Len(mods) - 1) :
          /\ fs' = zip_write(fs, get_archive_path(side),
                             SubSeq(mod_entries(mods, run), 1, k))
          /\ trace' = trace \o << "add_mods", "raise" >>
          /\ pc' = "exit"
          /\ exc' = "IOError"
    /\ UNCHANGED << inputs, handle, side, mods, cfg, hist, calls, query >>

\* self.get_config(), the argument of add_config: assert version
ResolveConfig ==
    /\ pc = "get_config"
    /\ IF get_config(release).ok
       THEN /\ cfg' = get_config(release)
            /\ trace' = Append(trace, "get_config")
            /\ pc' = next_step("get_config")
            /\ exc' = exc
       ELSE /\ cfg' = cfg
            /\ trace' = trace \o << "get_config", "raise" >>
            /\ pc' = "exit"
            /\ exc' = "AssertionError"
    /\ UNCHANGED << inputs, fs, handle, side, mods, hist, calls, query >>

\* self.add_config(side, cfg, archive): all entries copied, or an I/O error
\* after the first k of them
AddConfig ==
    /\ pc = "add_config"
    /\ LET es == cfg_entries(mod_pack, config_zip, cfg.version, side, run)
       IN \/ /\ fs' = zip_write(fs, get_archive_path(side), es)
             /\ trace' = Append(trace, "add_config")
             /\ pc' = next_step("add_config")
             /\ exc' = exc
          \/ \E k \in 0..(Len(es) - 1) :
             /\ fs' = zip_write(fs, get_archive_path(side), SubSeq(es, 1, k))
             /\ trace' = trace \o << "add_config", "raise" >>
             /\ pc' = "exit"
             /\ exc' = "IOError"
    /\ UNCHANGED << inputs, handle, side, mods, cfg, hist, calls, query >>

\* leaving the with block: ZipFile.__exit__ closes the archive, which writes
\* its central directory; after an I/O error that last write may fail too
ExitArchive ==
    /\ pc = "exit"
    /\ handle' = ZipFile_exit(handle, exc)
    /\ \E done \in BOOLEAN :
          /\ (exc # "IOError") => done
          /\ (handle' # "closed") => ~done
          /\ fs' = [fs EXCEPT ![get_archive_path(side)].finalized = done]
    /\ trace' = Append(trace, "close")
    /\ hist' = Finished(side, IF exc = "none" THEN "ok" ELSE "raised")
    /\ pc' = "idle"
    /\ UNCHANGED << inputs, side, mods, cfg, exc, calls, query >>

\* ------------------------------------------------------- direct queries

\* a direct call of get_mods(side)
GetMods(s) ==
    /\ pc = "idle"
    /\ query' = [op |-> "get_mods", side |-> s,
                 value |-> [ok |-> TRUE, value |-> get_mods(release, store, s),
                            calls |-> lookups(release, store, s)]]
    /\ UNCHANGED << inputs, fs, handle, pc, side, mods, cfg, exc, trace, hist,
                    calls >>

\* a direct call of get_amount_of_files_in_config(side), side a key of
\* self.exclusions
GetAmount(s) ==
    /\ pc = "idle"
    /\ query' = [op |-> "get_amount_of_files_in_config", side |-> s,
          value |-> get_amount_of_files_in_config(release, mod_pack, config_zip, s)]
    /\ UNCHANGED << inputs, fs, handle, pc, side, mods, cfg, exc, trace, hist,
                    calls >>

Next ==
    \/ \E s \in Side : Assemble(s)
    \/ ArchivePath
    \/ RemoveExisting
    \/ OpenArchive
    \/ ResolveMods
    \/ AddMods
    \/ ResolveConfig
    \/ AddConfig
    \/ ExitArchive
    \/ \E s \in Side : GetMods(s)
    \/ \E s \in {"CLIENT", "SERVER"} : GetAmount(s)

Spec == Init /\ [][Next]_vars

\* ================================================================ claims

\* the archive file at the output path of the current / last assemble() call
Archive == fs[get_archive_path(side)]

LastRun == hist[Len(hist)]

\* the last assemble() call has returned normally / has raised
Succeeded == pc = "idle" /\ hist # << >> /\ LastRun.outcome = "ok"
Failed == pc = "idle" /\ hist # << >> /\ LastRun.outcome = "raised"

Happened(step) == step \in Range(trace)

\* every occurrence of step a in the trace precedes every occurrence of b
Before(a, b) ==
    \A i, j \in 1..Len(trace) : (trace[i] = a /\ trace[j] = b) => i < j

InOrder(order) ==
    \A m, n \in 1..Len(order) : m < n => Before(order[m], order[n])

\* C1: assemble(BOTH) raises at once: in every step that leaves BOTH as the
\* argument of the current call, no file is created or deleted, no archive
\* handle is opened, no lookup is made, no archive path is computed, and the
\* call is over with an exception.
C1_InvalidSideRaisesFirst ==
    [][ side' = "BOTH" =>
          /\ fs' = fs
          /\ handle' = handle
          /\ calls' = calls
          /\ pc' = "idle"
          /\ trace' = << "raise" >>
          /\ hist' # << >>
          /\ hist'[Len(hist')] = [side |-> "BOTH", outcome |-> "raised"] ]_vars

\* assemble(BOTH) has raised while an archive of an earlier run exists
C1_Witness ==
    /\ Failed
    /\ side = "BOTH"
    /\ trace = << "raise" >>
    /\ \E p \in Paths : fs[p].exists /\ fs[p].entries # << >>

\* C2: in no terminal state of assemble() is the archive handle open; a call
\* that opened the archive ends with the handle closed, whether it returned
\* or raised.
C2_HandleClosedOnEveryExit ==
    pc = "idle" =>
        /\ handle # "open"
        /\ Happened("open") => handle = "closed"

\* assemble() raised while writing the config, after opening the archive
C2_Witness ==
    /\ Failed
    /\ exc = "IOError"
    /\ Happened("open")
    /\ Happened("add_config")
    /\ handle = "closed"

\* C3: after an assemble() that raised, no finalized, well-formed archive
\* exists at the output path of that side.
C3_FailedLeavesNoValidArchive ==
    Failed => ~(Archive.exists /\ Archive.finalized)

SecondRun ==
    /\ pc # "idle"
    /\ hist # << >>
    /\ LastRun = [side |-> side, outcome |-> "ok"]

\* two successful assemble(S) in succession have returned
TwiceDone ==
    /\ Succeeded
    /\ Len(hist) >= 2
    /\ LastRun.side = side
    /\ hist[Len(hist) - 1] = [side |-> side, outcome |-> "ok"]

\* C6: assemble(S) run twice in succession: the first run leaves a finalized
\* archive and no open handle, the second run has deleted that archive when
\* it opens the new one, and the second archive is finalized and holds only
\* entries written by the second run.
C6_RerunRebuildsArchive ==
    /\ (SecondRun /\ pc = "path") =>
          /\ handle = "closed"
          /\ Archive.exists /\ Archive.finalized
    /\ (SecondRun /\ pc = "open") =>
          /\ Happened("remove")
          /\ ~Archive.exists
    /\ TwiceDone =>
          /\ handle = "closed"
          /\ Archive.exists /\ Archive.finalized
          /\ \A j \in 1..Len(Archive.entries) : Archive.entries[j].run = Len(hist)

\* the second of two successful runs for one side has built a non-empty
\* archive after deleting the first run's
C6_Witness ==
    /\ TwiceDone
    /\ Happened("remove")
    /\ Archive.entries # << >>

\* the pairs of a get_mods(S) result all support S, and no mod of the
\* release's maps that does not support S is among them
SideFiltered(S, result) ==
    /\ \A i \in 1..Len(result) :
          /\ result[i].side \in {S, "BOTH"}
          /\ store[result[i].source][result[i].name].side = result[i].side
    /\ \A i \in 1..Len(release.github_mods) :
          LET n == release.github_mods[i].name
          IN (n \in DOMAIN store.github /\ store.github[n].side \notin {S, "BOTH"})
             => \A k \in 1..Len(result) :
                   ~(result[k].source = "github" /\ result[k].name = n)
    /\ \A i \in 1..Len(release.external_mods) :
          LET n == release.external_mods[i].name
          IN (n \in DOMAIN store.external /\ store.external[n].side \notin {S, "BOTH"})
             => \A k \in 1..Len(result) :
                   ~(result[k].source = "external" /\ result[k].name = n)

\* C7: every pair returned by get_mods(S), S in {CLIENT, SERVER}, is a mod
\* whose supported side is S or BOTH; a mod of the release's maps with
\* another supported side is not in the result.
C7_OnlyModsOfTheSide ==
    /\ (query.op = "get_mods" /\ query.side \in {"CLIENT", "SERVER"})
          => SideFiltered(query.side, query.value.value)
    /\ (Happened("get_mods") /\ side \in {"CLIENT", "SERVER"})
          => SideFiltered(side, mods)

\* get_mods(SERVER) returned some mod and dropped a client-only mod of the
\* release's primary map
C7_Witness ==
    /\ query.op = "get_mods"
    /\ query.side = "SERVER"
    /\ query.value.value # << >>
    /\ \E i \in 1..Len(release.github_mods) :
          store.github[release.github_mods[i].name].side = "CLIENT"

\* C8: get_mods(side) makes one lookup per entry of the primary map, then one
\* per entry of the external map, each in the map's order; it returns what
\* the lookups returned, in that order, without the absent results; a second
\* call with the same side returns the same sequence.
C8_OrderedAndStable ==
    query.op = "get_mods" =>
        LET cs == query.value.calls
            res == query.value.value
            ng == Len(release.github_mods)
            ne == Len(release.external_mods)
            rets == [i \in 1..Len(cs) |-> cs[i].ret]
        IN /\ Len(cs) = ng + ne
           /\ \A i \in 1..ng :
                 /\ cs[i].name = release.github_mods[i].name
                 /\ cs[i].version = release.github_mods[i].version
           /\ \A i \in 1..ne :
                 /\ cs[ng + i].name = release.external_mods[i].name
                 /\ cs[ng + i].version = release.external_mods[i].version
           /\ res = SelectSeq(rets, IsSome)
           /\ (Happened("get_mods") /\ side = query.side) => mods = res

\* get_mods was called directly and inside assemble for one side, some
\* lookup of each map found a mod and some lookup found none
C8_Witness ==
    /\ query.op = "get_mods"
    /\ Happened("get_mods")
    /\ side = query.side
    /\ \E i \in 1..Len(release.github_mods) : query.value.calls[i].ret.ok
    /\ \E i \in (Len(release.github_mods) + 1)..Len(query.value.calls) :
          query.value.calls[i].ret.ok
    /\ \E i \in 1..Len(query.value.calls) : ~query.value.calls[i].ret.ok

\* the order of steps the claim C9 states
ClaimedOrder ==
    << "get_mods", "get_config", "open", "add_mods", "add_config", "close" >>

\* the order of steps of assemble
CodeOrder ==
    << "open", "get_mods", "add_mods", "get_config", "add_config", "close" >>

IsStep(e) == e \in Range(CodeOrder)

\* C9 as stated: the steps of one assemble() call occur in the order resolve
\* mods, resolve config, open, write mods, write config, close, and a missing
\* config version is detected before the archive is opened or a mod written.
C9_ResolveBeforeOpen ==
    /\ InOrder(ClaimedOrder)
    /\ exc = "AssertionError" => ~Happened("open") /\ ~Happened("add_mods")

\* C9 (amended): the steps of one assemble() call occur in the order open,
\* resolve mods, write mods, resolve config, write config, close; a call that
\* returns has taken all six; a missing config version is detected after the
\* archive was opened and the mods were written.
C9_OpenBeforeResolve ==
    /\ InOrder(CodeOrder)
    /\ (Succeeded /\ side # "BOTH") => SelectSeq(trace, IsStep) = CodeOrder
    /\ exc = "AssertionError" =>
          /\ Happened("open") /\ Happened("add_mods")
          /\ Before("open", "get_config") /\ Before("add_mods", "get_config")

\* assemble() raised on a missing config version and closed the archive
C9_Witness ==
    /\ Failed
    /\ exc = "AssertionError"
    /\ Happened("open")
    /\ Happened("add_mods")
    /\ Happened("close")

\* C10: every lookup of get_mods is made with validSides = {side, BOTH} and
\* with the source of the map its entry comes from.
C10_LookupSourceOfTheMap ==
    Happened("get_mods") =>
        \A i \in 1..Len(calls) :
            /\ calls[i].sides = {side, "BOTH"}
            /\ calls[i].source = IF i <= Len(release.github_mods)
                                 THEN "github" ELSE "external"

====
